---- MODULE Spec2Model ----
(***************************************************************************)
(* A model of the configuration store of the Assistant application         *)
(* (src/core/config_manager.py, src/core/utils.py): the command map, the   *)
(* phrase-conflict detector, structural validation, persistence of         *)
(* commands.json / settings.json, and the unlocked/locked steps of the     *)
(* mutating calls when several threads share the store.                    *)
(*                                                                         *)
(* Strings that the code trims, lower-cases or compares character-wise     *)
(* (phrases, the Command field) are sequences of one-character strings.    *)
(* Descriptions and action names are only compared whole and are TLA+      *)
(* strings.  A Python dict whose iteration order matters (the command map, *)
(* a conflict map) is a sequence of entries [k |-> key, v |-> value] in    *)
(* insertion order.                                                        *)
(***************************************************************************)
EXTENDS Integers, Sequences, FiniteSets, TLC

VARIABLES
    commands,       \* ConfigManager._commands: ordered dict description -> record
    settings,       \* ConfigManager._settings: the settings tree, a dict key -> node
    cache,          \* ConfigManager._cache: dict key path -> value found by get_setting
    autoSave,       \* ConfigManager._auto_save
    lastErr,        \* ConfigManager._last_error_message (its kind)
    lastConflicts,  \* ConfigManager._last_conflicts: ordered dict phrase -> description
    cmdFile,        \* commands.json in the user directory
    setFile,        \* settings.json in the user directory
    last,           \* the call that was made last, with its arguments and outcome
    nops,           \* number of calls made so far
    thr,            \* per thread: the call in progress and the position in it
    heap,           \* caller-held references to objects that are also in the store
    result,         \* the value returned by the read accessor called last
    template,       \* settings.json and commands.json in the template directory
    backup,         \* settings.json and commands.json in the backup directory
    icon            \* FloatingIcon: its animation flags and its voice-command workers

storeVars == <<commands, settings, cache, autoSave, lastErr, lastConflicts, cmdFile, setFile>>
vars == <<commands, settings, cache, autoSave, lastErr, lastConflicts, cmdFile, setFile,
          last, nops, thr, heap, result, template, backup, icon>>
envVars == <<template, backup, icon>>

-----------------------------------------------------------------------------
(* Bounds *)

\* calls made in a run of the single-caller specification
MaxOps == 2

\* calls made in a run of the validation specification
MaxValidateOps == 1

\* calls begun, over all threads, in a run of the threaded specification
MaxCalls == 2

\* calls and caller-side writes in a run of the aliasing specification
MaxAliasOps == 3

\* calls and file changes in a run of the load specification
MaxLoadOps == 3

\* calls made in a run of the persistence specification
MaxPersistOps == 2

\* calls made in a run of the settings specification
MaxSettingsOps == 3

\* length of the texts enumerated for the resolver, and resolver calls in a run
MaxTextLen == 2

MaxResolveOps == 1

\* calls of the conflict functions in a run
MaxConflictOps == 1

\* calls in a run of the backup specification
MaxBackupOps == 3

\* clicks on the floating icon in a run
MaxClicks == 3

\* constructions of the store (program starts) and calls between them in a run
MaxConstructOps == 3

-----------------------------------------------------------------------------
(* str.strip() and str.lower() on character sequences *)

IsSpace(c) == c = " "

LowerChar(c) == IF c = "A" THEN "a" ELSE IF c = "B" THEN "b" ELSE c

Lower(s) == [i \in 1..Len(s) |-> LowerChar(s[i])]

RECURSIVE LStrip(_)
LStrip(s) == IF s # <<>> /\ IsSpace(Head(s)) THEN LStrip(Tail(s)) ELSE s

RECURSIVE RStrip(_)
RStrip(s) == IF s # <<>> /\ IsSpace(s[Len(s)]) THEN RStrip(SubSeq(s, 1, Len(s) - 1)) ELSE s

Strip(s) == RStrip(LStrip(s))

\* p.strip().lower()
Norm(p) == Lower(Strip(p))

\* `p and p.strip()` / `not ep or not ep.strip()`
NonBlank(p) == p # <<>> /\ Strip(p) # <<>>

-----------------------------------------------------------------------------
(* Ordered dicts *)

RECURSIVE DictIndex(_, _)
DictIndex(m, key) ==
    IF m = <<>> THEN 0
    ELSE IF m[Len(m)].k = key /\ DictIndex(SubSeq(m, 1, Len(m) - 1), key) = 0 THEN Len(m)
    ELSE DictIndex(SubSeq(m, 1, Len(m) - 1), key)

DictHas(m, key) == \E i \in 1..Len(m) : m[i].k = key

DictKeys(m) == {m[i].k : i \in 1..Len(m)}

DictGet(m, key) == m[DictIndex(m, key)].v

\* m[key] = val: an existing key keeps its position, a new key goes last
DictPut(m, key, val) ==
    IF DictHas(m, key)
    THEN [i \in 1..Len(m) |-> IF m[i].k = key THEN [k |-> key, v |-> val] ELSE m[i]]
    ELSE Append(m, [k |-> key, v |-> val])

\* del m[key]
DictDel(m, key) == SelectSeq(m, LAMBDA e : e.k # key)

\* m.update(other)
RECURSIVE DictUpdate(_, _)
DictUpdate(m, other) ==
    IF other = <<>> THEN m
    ELSE DictUpdate(DictPut(m, Head(other).k, Head(other).v), Tail(other))

\* the dict as a set of (key, value) pairs: Python's == on dicts ignores order
DictItems(m) == {<<m[i].k, m[i].v>> : i \in 1..Len(m)}

-----------------------------------------------------------------------------
(* ValidationUtils.is_valid_command_data *)

RequiredFields == {"Phrases", "Action", "Command"}

ValidActions == {"browser", "command", "keys"}

\* the validation with the check of the Command field left out
IsValidCommandDataNoCommandCheck(r) ==
    /\ RequiredFields \subseteq DOMAIN r
    /\ r.Phrases # <<>>
    /\ r.Action \in ValidActions

IsValidCommandData(r) ==
    /\ RequiredFields \subseteq DOMAIN r
    /\ r.Phrases # <<>>
    /\ r.Action \in ValidActions
    /\ Strip(r.Command) # <<>>

-----------------------------------------------------------------------------
(* ConfigManager._find_phrase_conflicts *)

\* cmd.get('Phrases', [])
PhrasesOf(cmd) == IF "Phrases" \in DOMAIN cmd THEN cmd.Phrases ELSE <<>>

\* [p.strip().lower() for p in phrases if p and p.strip()]
NormalizedNew(phrases) ==
    LET kept == SelectSeq(phrases, NonBlank)
    IN  [i \in 1..Len(kept) |-> Norm(kept[i])]

\* zip(phrases, normalized_new): pairs position by position, as long as the shorter
ZipPhrases(phrases) ==
    LET nn == NormalizedNew(phrases)
    IN  [i \in 1..Len(nn) |-> [raw |-> phrases[i], norm |-> nn[i]]]

\* `exclude_description and desc == exclude_description`; exclude is <<>> for None
Excluded(desc, exclude) == exclude # <<>> /\ exclude[1] # "" /\ desc = exclude[1]

\* the inner loop: for np_raw, np_norm in zip(...): if equal, conflicts[np_raw.strip()] = desc
RECURSIVE ScanPairs(_, _, _, _)
ScanPairs(conflicts, pairs, epNorm, desc) ==
    IF pairs = <<>> THEN conflicts
    ELSE ScanPairs(IF Head(pairs).norm = epNorm
                      THEN DictPut(conflicts, Strip(Head(pairs).raw), desc)
                      ELSE conflicts,
                   Tail(pairs), epNorm, desc)

\* the middle loop: for ep in existing_phrases (blank ones skipped)
RECURSIVE ScanExisting(_, _, _, _)
ScanExisting(conflicts, eps, pairs, desc) ==
    IF eps = <<>> THEN conflicts
    ELSE ScanExisting(IF NonBlank(Head(eps))
                         THEN ScanPairs(conflicts, pairs, Norm(Head(eps)), desc)
                         ELSE conflicts,
                      Tail(eps), pairs, desc)

\* the outer loop: for desc, cmd in self._commands.items()
RECURSIVE ScanCommands(_, _, _, _)
ScanCommands(conflicts, cmds, pairs, exclude) ==
    IF cmds = <<>> THEN conflicts
    ELSE ScanCommands(IF Excluded(Head(cmds).k, exclude)
                         THEN conflicts
                         ELSE ScanExisting(conflicts, PhrasesOf(Head(cmds).v), pairs,
                                           Head(cmds).k),
                      Tail(cmds), pairs, exclude)

FindPhraseConflicts(cmds, phrases, exclude) ==
    IF NormalizedNew(phrases) = <<>> THEN <<>>
    ELSE ScanCommands(<<>>, cmds, ZipPhrases(phrases), exclude)

-----------------------------------------------------------------------------
(* ConfigManager._validate_all_phrase_conflicts *)

\* for ph, owner in cmd_conflicts.items(): if ph not in conflicts: conflicts[ph] = owner
RECURSIVE MergeFirstSeen(_, _)
MergeFirstSeen(conflicts, more) ==
    IF more = <<>> THEN conflicts
    ELSE MergeFirstSeen(IF DictHas(conflicts, Head(more).k)
                           THEN conflicts
                           ELSE DictPut(conflicts, Head(more).k, Head(more).v),
                        Tail(more))

RECURSIVE ValidateSweep(_, _, _)
ValidateSweep(conflicts, rest, cmds) ==
    IF rest = <<>> THEN conflicts
    ELSE ValidateSweep(
            IF PhrasesOf(Head(rest).v) = <<>> THEN conflicts
            ELSE MergeFirstSeen(conflicts,
                    FindPhraseConflicts(cmds, PhrasesOf(Head(rest).v), <<Head(rest).k>>)),
            Tail(rest), cmds)

ValidateAllPhraseConflicts(cmds) == ValidateSweep(<<>>, cmds, cmds)

-----------------------------------------------------------------------------
(* JsonUtils.load_json / JsonUtils.save_json.  A file is missing, unparsable, *)
(* or holds a JSON document.  A write either succeeds, or fails before the    *)
(* file is opened for writing ("denied": the file keeps its content), or      *)
(* fails after it was truncated ("partial": the file is left unparsable).     *)

MissingFile == [kind |-> "missing", doc |-> <<>>]
CorruptFile == [kind |-> "corrupt", doc |-> <<>>]
\* well-formed JSON whose top level is a list, not an object
ArrayFile == [kind |-> "array", doc |-> <<>>]
JsonFile(doc) == [kind |-> "json", doc |-> doc]

IoOutcomes == {"ok", "denied", "partial"}

LoadJson(file, default) == IF file.kind = "json" THEN file.doc ELSE default

SaveJsonOk(io) == io = "ok"

SaveJsonFile(data, file, io) ==
    IF io = "ok" THEN JsonFile(data)
    ELSE IF io = "partial" THEN CorruptFile
    ELSE file

-----------------------------------------------------------------------------
(* Messages kept in _last_error_message *)

NoMessage == [kind |-> "", d |-> "", items |-> <<>>]
InvalidMessage(d) == [kind |-> "invalid", d |-> d, items |-> <<>>]
DuplicateMessage(c) == [kind |-> "duplicate", d |-> "", items |-> c]
SaveDuplicateMessage(c) == [kind |-> "duplicate_across", d |-> "", items |-> c]

\* auto-save deciding whenever it is on, an explicit save=False included
PersistAutoSaveWins(save, auto) == save = "yes" \/ auto

\* `save is True or (save is None and self._auto_save)`; save is "none", "yes" or "no"
Persist(save, auto) == save = "yes" \/ (save = "none" /\ auto)

NoRecord == [f \in {} |-> <<>>]

Call(op, d, r, save, ok) == [op |-> op, d |-> d, r |-> r, save |-> save, ok |-> ok]

\* what a read accessor returned: the accessor, its argument and the value
Returns(op, arg, val) == [op |-> op, arg |-> arg, val |-> val]

NoValue == Returns("", <<>>, <<>>)

-----------------------------------------------------------------------------
(* ConfigManager.save_commands / save_settings as functions of the state they read *)

SaveCommandsOutcome(cmds, file, err, confl, io) ==
    LET c == ValidateAllPhraseConflicts(cmds)
    IN  IF c # <<>>
        THEN [ok |-> FALSE, file |-> file, err |-> SaveDuplicateMessage(c), confl |-> c]
        ELSE [ok |-> SaveJsonOk(io), file |-> SaveJsonFile(cmds, file, io),
              err |-> err, confl |-> confl]

\* the tail of add/update/remove: the map is already changed to cmds
CommitCommands(cmds, save, io) ==
    /\ commands' = cmds
    /\ IF Persist(save, autoSave)
       THEN LET o == SaveCommandsOutcome(cmds, cmdFile, lastErr, lastConflicts, io)
            IN  /\ cmdFile' = o.file
                /\ lastErr' = o.err
                /\ lastConflicts' = o.confl
       ELSE UNCHANGED <<cmdFile, lastErr, lastConflicts>>
    /\ UNCHANGED <<settings, cache, autoSave, setFile>>

CommitResult(cmds, save, io) ==
    IF Persist(save, autoSave)
    THEN SaveCommandsOutcome(cmds, cmdFile, lastErr, lastConflicts, io).ok
    ELSE TRUE

\* a rejected add/update: only the message and the conflict set change
Reject(msg, confl) ==
    /\ lastErr' = msg
    /\ lastConflicts' = confl
    /\ UNCHANGED <<commands, settings, cache, autoSave, cmdFile, setFile>>

-----------------------------------------------------------------------------
(* The calls, each as one step of a single caller *)

\* add_command up to the point where it takes the lock: validation, then the
\* conflict scan over every command (nothing excluded)
AddCheck(cmds, d, r) ==
    LET c == FindPhraseConflicts(cmds, PhrasesOf(r), <<>>)
    IN  IF ~IsValidCommandData(r)
        THEN [ok |-> FALSE, msg |-> InvalidMessage(d), confl |-> <<>>]
        ELSE IF c # <<>>
        THEN [ok |-> FALSE, msg |-> DuplicateMessage(c), confl |-> c]
        ELSE [ok |-> TRUE, msg |-> NoMessage, confl |-> <<>>]

\* update_command between its existence test and the lock: validation, then the
\* conflict scan with the command's own entry excluded
UpdateCheck(cmds, d, r) ==
    LET c == FindPhraseConflicts(cmds, PhrasesOf(r), <<d>>)
    IN  IF ~IsValidCommandData(r)
        THEN [ok |-> FALSE, msg |-> InvalidMessage(d), confl |-> <<>>]
        ELSE IF c # <<>>
        THEN [ok |-> FALSE, msg |-> DuplicateMessage(c), confl |-> c]
        ELSE [ok |-> TRUE, msg |-> NoMessage, confl |-> <<>>]

AddCommand(d, r, save, io) ==
    LET chk == AddCheck(commands, d, r)
    IN  IF ~chk.ok
        THEN /\ Reject(chk.msg, chk.confl)
             /\ last' = Call("add", d, r, save, FALSE)
        ELSE /\ CommitCommands(DictPut(commands, d, r), save, io)
             /\ last' = Call("add", d, r, save, CommitResult(DictPut(commands, d, r), save, io))

UpdateCommand(d, r, save, io) ==
    LET chk == UpdateCheck(commands, d, r)
    IN  IF ~DictHas(commands, d)
        THEN /\ UNCHANGED storeVars
             /\ last' = Call("update", d, r, save, FALSE)
        ELSE IF ~chk.ok
        THEN /\ Reject(chk.msg, chk.confl)
             /\ last' = Call("update", d, r, save, FALSE)
        ELSE /\ CommitCommands(DictPut(commands, d, r), save, io)
             /\ last' = Call("update", d, r, save,
                             CommitResult(DictPut(commands, d, r), save, io))

RemoveCommand(d, save, io) ==
    IF ~DictHas(commands, d)
    THEN /\ UNCHANGED storeVars
         /\ last' = Call("remove", d, NoRecord, save, FALSE)
    ELSE /\ CommitCommands(DictDel(commands, d), save, io)
         /\ last' = Call("remove", d, NoRecord, save,
                         CommitResult(DictDel(commands, d), save, io))

SaveCommands(io) ==
    LET o == SaveCommandsOutcome(commands, cmdFile, lastErr, lastConflicts, io)
    IN  /\ cmdFile' = o.file
        /\ lastErr' = o.err
        /\ lastConflicts' = o.confl
        /\ UNCHANGED <<commands, settings, cache, autoSave, setFile>>
        /\ last' = Call("save", "", NoRecord, "none", o.ok)

\* get_last_error_message: the stored message, then the rendering of the stored
\* conflict set when there is one; the parts of the returned text in order
GetLastErrorMessageText(err, confl) ==
    (IF err # NoMessage THEN <<err>> ELSE <<>>)
    \o (IF confl # <<>> THEN << [kind |-> "conflicting", d |-> "", items |-> confl] >> ELSE <<>>)

GetLastErrorMessage ==
    /\ UNCHANGED storeVars
    /\ last' = Call("get_last_error_message", "", NoRecord, "none", TRUE)
    /\ result' = Returns("get_last_error_message", <<>>, GetLastErrorMessageText(lastErr, lastConflicts))

SetAutoSave(enabled) ==
    /\ autoSave' = enabled
    /\ UNCHANGED <<commands, settings, cache, lastErr, lastConflicts, cmdFile, setFile>>
    /\ last' = Call("set_auto_save", "", NoRecord, "none", TRUE)

SaveSettings(io) ==
    /\ setFile' = SaveJsonFile(settings, setFile, io)
    /\ UNCHANGED <<commands, settings, cache, autoSave, lastErr, lastConflicts, cmdFile>>
    /\ last' = Call("save_settings", "", NoRecord, "none", SaveJsonOk(io))

-----------------------------------------------------------------------------
(* The settings tree.  A key and a key path are character sequences (the path *)
(* is split at its dots); a node is a mapping, a number, a string, a list or  *)
(* null, and only a mapping has entries.                                      *)

MapNode(m) == [t |-> "map", m |-> m, n |-> 0]
NumNode(n) == [t |-> "num", m |-> <<>>, n |-> n]
StrNode == [t |-> "str", m |-> <<>>, n |-> 0]
ListNode == [t |-> "list", m |-> <<>>, n |-> 0]
NullNode == [t |-> "null", m |-> <<>>, n |-> 0]

\* key_path.split('.')
RECURSIVE SplitFrom(_, _)
SplitFrom(s, cur) ==
    IF s = <<>> THEN <<cur>>
    ELSE IF Head(s) = "." THEN <<cur>> \o SplitFrom(Tail(s), <<>>)
    ELSE SplitFrom(Tail(s), Append(cur, Head(s)))

Split(path) == SplitFrom(path, <<>>)

\* `for key in keys: value = value[key]`: KeyError on a missing key, TypeError
\* on a node that is not a mapping; both are caught and give found = FALSE
RECURSIVE Traverse(_, _)
Traverse(node, keys) ==
    IF keys = <<>> THEN [found |-> TRUE, val |-> node]
    ELSE IF node.t # "map" THEN [found |-> FALSE, val |-> node]
    ELSE IF ~DictHas(node.m, Head(keys)) THEN [found |-> FALSE, val |-> node]
    ELSE Traverse(DictGet(node.m, Head(keys)), Tail(keys))

\* a cache entry: the value, and whether it is the tree's own dict object at
\* that path (`self._cache[cache_key] = value` stores the object, not a copy)
Cached(node) == [val |-> node, ref |-> node.t = "map"]

\* get_setting as a function of the tree and the cache: the value returned and
\* the cache it leaves
GetSettingOutcome(tree, cch, path, default) ==
    LET t == Traverse(MapNode(tree), Split(path))
    IN  IF DictHas(cch, path) THEN [val |-> DictGet(cch, path).val, cache |-> cch]
        ELSE IF t.found THEN [val |-> t.val, cache |-> DictPut(cch, path, Cached(t.val))]
        ELSE [val |-> default, cache |-> cch]

GetSetting(path, default) ==
    LET o == GetSettingOutcome(settings, cache, path, default)
    IN  /\ cache' = o.cache
        /\ UNCHANGED <<commands, settings, autoSave, lastErr, lastConflicts, cmdFile, setFile>>
        /\ last' = Call("get_setting", path, NoRecord, "none", TRUE)
        /\ result' = Returns("get_setting", path, o.val)

\* set_setting's walk to the parent and assignment: intermediate mappings are
\* created for missing keys; a node that is not a mapping on the way (or as
\* the parent) raises, which set_setting catches
RECURSIVE SetPath(_, _, _)
SetPath(node, keys, value) ==
    IF node.t # "map" THEN [ok |-> FALSE, node |-> node]
    ELSE IF Len(keys) = 1 THEN [ok |-> TRUE, node |-> MapNode(DictPut(node.m, keys[1], value))]
    ELSE LET child == IF DictHas(node.m, Head(keys)) THEN DictGet(node.m, Head(keys))
                      ELSE MapNode(<<>>)
             sub == SetPath(child, Tail(keys), value)
         IN  IF sub.ok THEN [ok |-> TRUE, node |-> MapNode(DictPut(node.m, Head(keys), sub.node))]
             ELSE [ok |-> FALSE, node |-> node]

IsStrictPrefix(p, q) == Len(p) < Len(q) /\ SubSeq(q, 1, Len(p)) = p

\* the cache after set_setting(path, ...) changed the tree in place to newTree:
\* the entry of path itself is deleted; a cached dict on the way to path is the
\* object that was changed, so it shows the change; an entry below path keeps
\* the object that path's assignment has just removed from the tree
CacheAfterSet(cch, newTree, path) ==
    LET rest == DictDel(cch, path)
        entry(e) ==
            IF e.v.ref /\ IsStrictPrefix(Split(e.k), Split(path))
            THEN [k |-> e.k, v |-> Cached(Traverse(MapNode(newTree), Split(e.k)).val)]
            ELSE IF IsStrictPrefix(Split(path), Split(e.k))
            THEN [k |-> e.k, v |-> [val |-> e.v.val, ref |-> FALSE]]
            ELSE e
    IN  [i \in 1..Len(rest) |-> entry(rest[i])]

\* the cache after self._settings was bound to a new dict: no entry is an
\* object of the new tree
CacheDetached(cch) == [i \in 1..Len(cch) |-> [k |-> cch[i].k, v |-> [val |-> cch[i].v.val, ref |-> FALSE]]]

SetSetting(path, value, save, io) ==
    LET w == SetPath(MapNode(settings), Split(path), value)
    IN  IF ~w.ok
        THEN /\ UNCHANGED storeVars
             /\ last' = Call("set_setting", path, value, save, FALSE)
        ELSE /\ settings' = w.node.m
             /\ cache' = CacheAfterSet(cache, w.node.m, path)
             /\ IF Persist(save, autoSave)
                THEN /\ setFile' = SaveJsonFile(w.node.m, setFile, io)
                     /\ last' = Call("set_setting", path, value, save, SaveJsonOk(io))
                ELSE /\ UNCHANGED setFile
                     /\ last' = Call("set_setting", path, value, save, TRUE)
             /\ UNCHANGED <<commands, autoSave, lastErr, lastConflicts, cmdFile>>

\* {k: v for k, v in commands_data.items() if k != 'settings'}
DropSettingsKey(doc) == SelectSeq(doc, LAMBDA e : e.k # "settings")

\* reload_all -> _load_configurations
\* reload_all that leaves the cache as it is
ReloadAllKeepingCache ==
    /\ settings' = LoadJson(setFile, <<>>)
    /\ IF cmdFile.kind = "array"
       THEN UNCHANGED commands
       ELSE commands' = DropSettingsKey(LoadJson(cmdFile, <<>>))
    /\ cache' = CacheDetached(cache)
    /\ UNCHANGED <<autoSave, lastErr, lastConflicts, cmdFile, setFile>>
    /\ last' = Call("reload", "", NoRecord, "none", TRUE)

\* a commands.json whose top level is a list makes `.items()` raise after the
\* settings were assigned: the exception is logged, the map and the cache stay
ReloadAll ==
    /\ settings' = LoadJson(setFile, <<>>)
    /\ IF cmdFile.kind = "array"
       THEN /\ UNCHANGED commands
            /\ cache' = CacheDetached(cache)
       ELSE /\ commands' = DropSettingsKey(LoadJson(cmdFile, <<>>))
            /\ cache' = <<>>
    /\ UNCHANGED <<autoSave, lastErr, lastConflicts, cmdFile, setFile>>
    /\ last' = Call("reload", "", NoRecord, "none", TRUE)

\* dict.update on the settings tree: top-level keys of doc replace those of tree
SettingsUpdate(tree, doc) == DictUpdate(tree, doc)

ImportTypes == {"settings", "commands", "all"}

ImportedSettings(type, doc, merge) ==
    IF type = "settings" THEN (IF merge THEN SettingsUpdate(settings, doc) ELSE doc)
    ELSE IF type = "all" /\ "settings" \in DOMAIN doc
    THEN (IF merge THEN SettingsUpdate(settings, doc.settings) ELSE doc.settings)
    ELSE settings

ImportedCommands(type, doc, merge) ==
    IF type = "commands" THEN (IF merge THEN DictUpdate(commands, doc) ELSE doc)
    ELSE IF type = "all" /\ "commands" \in DOMAIN doc
    THEN (IF merge THEN DictUpdate(commands, doc.commands) ELSE doc.commands)
    ELSE commands

\* import_config(file_path, config_type, merge); ioS, ioC: the two writes of auto-save
ImportConfig(file, type, merge, ioS, ioC) ==
    IF file.kind # "json" \/ DOMAIN file.doc = {} \/ type \notin ImportTypes
    THEN /\ UNCHANGED storeVars
         /\ last' = Call("import", type, [doc |-> file.doc, merge |-> merge], "none", FALSE)
    ELSE LET newS == ImportedSettings(type, file.doc, merge)
             newC == ImportedCommands(type, file.doc, merge)
             o == SaveCommandsOutcome(newC, cmdFile, lastErr, lastConflicts, ioC)
         IN  /\ settings' = newS
             /\ commands' = newC
             /\ cache' = <<>>
             /\ IF autoSave
                THEN /\ setFile' = SaveJsonFile(newS, setFile, ioS)
                     /\ cmdFile' = o.file
                     /\ lastErr' = o.err
                     /\ lastConflicts' = o.confl
                ELSE UNCHANGED <<setFile, cmdFile, lastErr, lastConflicts>>
             /\ UNCHANGED autoSave
             /\ last' = Call("import", type, [doc |-> file.doc, merge |-> merge], "none", TRUE)

-----------------------------------------------------------------------------
(* Inputs of the single-caller specification *)

Descs == {"", "A"}

Rec(phrases, action, command) ==
    [Phrases |-> phrases, Action |-> action, Command |-> command]

\* phrase lists: "a"; "A " (equal to "a" once trimmed and lower-cased); "b"; a blank
\* entry before "a"; a single empty entry; and the empty list
PhraseLists ==
    { << <<"a">> >>, << <<"A", " ">> >>, << <<"b">> >>, << <<" ">>, <<"a">> >>,
      << <<>> >>, <<>> }

Recs == {Rec(p, "browser", <<"x">>) : p \in PhraseLists}

SaveArgs == {"none", "yes", "no"}

\* the outcomes of the write a call makes, none to choose when it does not write
IoFor(save) == IF Persist(save, autoSave) THEN IoOutcomes ELSE {"ok"}

SettingsDoc == << [k |-> <<"x">>, v |-> NumNode(1)] >>

ImportFiles ==
    << [type |-> "commands",
       file |-> JsonFile(<< [k |-> "A", v |-> Rec(<< <<"a">> >>, "keys", <<"x">>)],
                            [k |-> "B", v |-> Rec(<< <<"A">> >>, "keys", <<"x">>)] >>)],
      [type |-> "commands",
       file |-> JsonFile(<< [k |-> "B", v |-> Rec(<< <<"b">> >>, "internal", <<"x">>)] >>)],
      [type |-> "all",
       file |-> JsonFile([settings |-> SettingsDoc])],
      [type |-> "settings", file |-> MissingFile] >>

-----------------------------------------------------------------------------
(* The single-caller specification: whole calls, one after another *)

NoThreads == <<>>
NoHeap == {}

\* a directory without settings.json and commands.json
NoFiles == [settings |-> MissingFile, commands |-> MissingFile]

\* FloatingIcon.__init__: no animation runs and no worker exists
NoWorkers == <<>>
IdleIcon == [is_listening |-> FALSE, is_processing |-> FALSE, is_shaking |-> FALSE,
             actions_enabled |-> TRUE, callback |-> FALSE, workers |-> NoWorkers]

\* no backup directory; taken: the user files as they were when
\* backup_user_config last returned True
NoBackup == [exists |-> FALSE, settings |-> MissingFile, commands |-> MissingFile,
             taken |-> [ok |-> FALSE, settings |-> MissingFile, commands |-> MissingFile]]

\* no template directory, no backup directory, no icon in use
EnvUnused ==
    /\ template = NoFiles
    /\ backup = NoBackup
    /\ icon = IdleIcon

\* after construction with no template: both user files are created holding {}
Init ==
    /\ commands = <<>>
    /\ settings = <<>>
    /\ cache = <<>>
    /\ autoSave = TRUE
    /\ lastErr = NoMessage
    /\ lastConflicts = <<>>
    /\ cmdFile = JsonFile(<<>>)
    /\ setFile = JsonFile(<<>>)
    /\ last = Call("init", "", NoRecord, "none", TRUE)
    /\ nops = 0
    /\ thr = NoThreads
    /\ heap = NoHeap
    /\ result = NoValue
    /\ EnvUnused

CountedTo(n) ==
    /\ nops < n
    /\ nops' = nops + 1
    /\ UNCHANGED <<thr, heap, result, envVars>>

\* a call of a read accessor, which sets result
CountedReadTo(n) ==
    /\ nops < n
    /\ nops' = nops + 1
    /\ UNCHANGED <<thr, heap, envVars>>

Counted == CountedTo(MaxOps)

DoAdd == \E d \in Descs, r \in Recs, save \in SaveArgs : \E io \in IoFor(save) :
            Counted /\ AddCommand(d, r, save, io)

DoUpdate == \E d \in Descs, r \in Recs, save \in SaveArgs : \E io \in IoFor(save) :
            Counted /\ UpdateCommand(d, r, save, io)

DoRemove == \E d \in Descs, save \in SaveArgs : \E io \in IoFor(save) :
            Counted /\ RemoveCommand(d, save, io)

DoSave == \E io \in IoOutcomes : Counted /\ SaveCommands(io)

DoSaveSettings == \E io \in IoOutcomes : Counted /\ SaveSettings(io)

DoSetAutoSave == \E b \in BOOLEAN : Counted /\ SetAutoSave(b)

DoReload == Counted /\ ReloadAll

DoGetLastErrorMessage == CountedReadTo(MaxOps) /\ GetLastErrorMessage

DoImport == \E i \in DOMAIN ImportFiles, merge \in BOOLEAN :
            \E ioS \in IoFor("none"), ioC \in IoFor("none") :
            Counted /\ ImportConfig(ImportFiles[i].file, ImportFiles[i].type, merge, ioS, ioC)

Next ==
    \/ DoAdd
    \/ DoUpdate
    \/ DoRemove
    \/ DoSave
    \/ DoSaveSettings
    \/ DoSetAutoSave
    \/ DoReload
    \/ DoImport
    \/ DoGetLastErrorMessage

Spec == Init /\ [][Next]_vars

-----------------------------------------------------------------------------
(* The validation specification: add_command applied to every shape of record *)

ValidatePhraseLists == { <<>>, << <<"a">> >>, << <<" ">> >>, << <<"a">>, <<"b">> >> }

ValidateActions == {"browser", "command", "keys", "internal", "Browser", "shell", ""}

ValidateCommands == { <<>>, <<" ">>, <<"x">>, <<" ", "x">> }

\* r without one of its fields
Without(r, field) == [f \in (DOMAIN r) \ {field} |-> r[f]]

ValidationRecs ==
    {Rec(p, a, c) : p \in ValidatePhraseLists, a \in ValidateActions, c \in ValidateCommands}
    \cup {Without(Rec(<< <<"a">> >>, "keys", <<"x">>), f) : f \in RequiredFields}

ValidateAdd == \E r \in ValidationRecs, save \in SaveArgs : \E io \in IoFor(save) :
            CountedTo(MaxValidateOps) /\ AddCommand("A", r, save, io)

NextValidate == ValidateAdd

SpecValidate == Init /\ [][NextValidate]_vars

-----------------------------------------------------------------------------
(* The threaded specification.  Several threads call the store; a step is    *)
(* what a call does between two points where another thread can run: the     *)
(* code before `with self._lock` runs unlocked, the block under the lock is  *)
(* one step (every write of _commands is under the lock).  The conflict scan *)
(* reads _commands without the lock and is taken as one step.                *)

Threads == {1, 2}

ConcDescs == {"A", "B"}

ConcRecs == {Rec(<< <<"a">> >>, "browser", <<"x">>), Rec(<< <<"A", " ">> >>, "keys", <<"x">>)}

ConcSaveArgs == {"no", "none"}

\* the store a constructor finds: commands.json holds one command
ConcStartDoc == << [k |-> "A", v |-> Rec(<< <<"b">> >>, "browser", <<"x">>)] >>

IdleThread == [pc |-> "idle", op |-> "", d |-> "", r |-> NoRecord, save |-> "none", ret |-> ""]

EntryPoint(op) ==
    IF op = "add" THEN "add_check"
    ELSE IF op = "update" THEN "update_exists"
    ELSE op

\* the call returns (or raises): the thread is idle again and keeps the outcome
Returned(t, ret) == thr' = [thr EXCEPT ![t].pc = "idle", ![t].ret = ret]

BoolRet(b) == IF b THEN "True" ELSE "False"

InitConc ==
    /\ commands = ConcStartDoc
    /\ settings = <<>>
    /\ cache = <<>>
    /\ autoSave = TRUE
    /\ lastErr = NoMessage
    /\ lastConflicts = <<>>
    /\ cmdFile = JsonFile(ConcStartDoc)
    /\ setFile = JsonFile(<<>>)
    /\ last = Call("init", "", NoRecord, "none", TRUE)
    /\ nops = 0
    /\ thr = [t \in Threads |-> IdleThread]
    /\ heap = NoHeap
    /\ result = NoValue
    /\ EnvUnused

\* a thread enters a call
TCall(t, op, d, r, save) ==
    /\ thr[t].pc = "idle"
    /\ nops < MaxCalls
    /\ nops' = nops + 1
    /\ thr' = [thr EXCEPT ![t] = [pc |-> EntryPoint(op), op |-> op, d |-> d, r |-> r,
                                  save |-> save, ret |-> ""]]
    /\ UNCHANGED <<storeVars, last, heap, result, envVars>>

\* add_command before the lock: validation and conflict scan
TAddCheck(t) ==
    /\ thr[t].pc = "add_check"
    /\ LET chk == AddCheck(commands, thr[t].d, thr[t].r)
       IN  IF ~chk.ok
           THEN Reject(chk.msg, chk.confl) /\ Returned(t, "False")
           ELSE thr' = [thr EXCEPT ![t].pc = "add_commit"] /\ UNCHANGED storeVars
    /\ UNCHANGED <<last, nops, heap, result, envVars>>

\* add_command under the lock: insertion and optional save
TAddCommit(t, io) ==
    /\ thr[t].pc = "add_commit"
    /\ CommitCommands(DictPut(commands, thr[t].d, thr[t].r), thr[t].save, io)
    /\ Returned(t, BoolRet(CommitResult(DictPut(commands, thr[t].d, thr[t].r), thr[t].save, io)))
    /\ UNCHANGED <<last, nops, heap, result, envVars>>

\* update_command: `if description not in self._commands`, unlocked
TUpdateExists(t) ==
    /\ thr[t].pc = "update_exists"
    /\ IF ~DictHas(commands, thr[t].d)
       THEN Returned(t, "False")
       ELSE thr' = [thr EXCEPT ![t].pc = "update_check"]
    /\ UNCHANGED <<storeVars, last, nops, heap, result, envVars>>

\* update_command: validation and conflict scan, unlocked
TUpdateCheck(t) ==
    /\ thr[t].pc = "update_check"
    /\ LET chk == UpdateCheck(commands, thr[t].d, thr[t].r)
       IN  IF ~chk.ok
           THEN Reject(chk.msg, chk.confl) /\ Returned(t, "False")
           ELSE thr' = [thr EXCEPT ![t].pc = "update_commit"] /\ UNCHANGED storeVars
    /\ UNCHANGED <<last, nops, heap, result, envVars>>

\* update_command under the lock: `self._commands[description].copy()` raises
\* KeyError when the description is gone, and nothing in update_command catches it
TUpdateCommit(t, io) ==
    /\ thr[t].pc = "update_commit"
    /\ IF ~DictHas(commands, thr[t].d)
       THEN Returned(t, "KeyError") /\ UNCHANGED storeVars
       ELSE /\ CommitCommands(DictPut(commands, thr[t].d, thr[t].r), thr[t].save, io)
            /\ Returned(t, BoolRet(CommitResult(DictPut(commands, thr[t].d, thr[t].r),
                                                thr[t].save, io)))
    /\ UNCHANGED <<last, nops, heap, result, envVars>>

\* remove_command: all of it under the lock
TRemove(t, io) ==
    /\ thr[t].pc = "remove"
    /\ IF ~DictHas(commands, thr[t].d)
       THEN Returned(t, "False") /\ UNCHANGED storeVars
       ELSE /\ CommitCommands(DictDel(commands, thr[t].d), thr[t].save, io)
            /\ Returned(t, BoolRet(CommitResult(DictDel(commands, thr[t].d), thr[t].save, io)))
    /\ UNCHANGED <<last, nops, heap, result, envVars>>

\* get_command: under the lock
TGetCommand(t) ==
    /\ thr[t].pc = "get_command"
    /\ Returned(t, IF DictHas(commands, thr[t].d) THEN "record" ELSE "None")
    /\ UNCHANGED <<storeVars, last, nops, heap, result, envVars>>

\* get_all_commands: under the lock
TGetAllCommands(t) ==
    /\ thr[t].pc = "get_all_commands"
    /\ Returned(t, "map")
    /\ UNCHANGED <<storeVars, last, nops, heap, result, envVars>>

ConcOps == {"add", "update", "remove", "get_command", "get_all_commands"}

NextConc ==
    \/ \E t \in Threads, op \in ConcOps, d \in ConcDescs, r \in ConcRecs, save \in ConcSaveArgs :
          TCall(t, op, d, r, save)
    \/ \E t \in Threads : TAddCheck(t)
    \/ \E t \in Threads, io \in IoOutcomes : TAddCommit(t, io)
    \/ \E t \in Threads : TUpdateExists(t)
    \/ \E t \in Threads : TUpdateCheck(t)
    \/ \E t \in Threads, io \in IoOutcomes : TUpdateCommit(t, io)
    \/ \E t \in Threads, io \in IoOutcomes : TRemove(t, io)
    \/ \E t \in Threads : TGetCommand(t)
    \/ \E t \in Threads : TGetAllCommands(t)

SpecConc == InitConc /\ [][NextConc]_vars

-----------------------------------------------------------------------------
(* The aliasing specification.  dict.copy() is shallow: the copy is a new    *)
(* dict whose values are the same objects.  `heap` records what the caller   *)
(* holds and which of the objects it holds are the store's own:              *)
(*   snap      the value last returned by get_command / get_all_commands     *)
(*   snapRecs  descriptions whose record in snap IS the store's record       *)
(*   snapLists descriptions whose Phrases list in snap IS the store's list   *)
(*   arg       the command_data the caller last passed to an accepted        *)
(*             add_command / update_command                                  *)
(*   argLists  descriptions whose stored Phrases list IS the list of arg     *)
(* A write through a shared object changes every holder of that object.      *)

AliasDescs == {"A", "B"}

AliasRecs == {Rec(<< <<"a">> >>, "browser", <<"x">>), Rec(<< <<"c">> >>, "keys", <<"x">>)}

\* what the caller appends to a phrase list, and the Action it writes
AliasPhrase == <<"q">>

AliasAction == "command"

NoHandle == [snap |-> <<>>, snapRecs |-> {}, snapLists |-> {}, arg |-> <<>>, argLists |-> {}]

InitAlias ==
    /\ commands = ConcStartDoc
    /\ settings = <<>>
    /\ cache = <<>>
    /\ autoSave = TRUE
    /\ lastErr = NoMessage
    /\ lastConflicts = <<>>
    /\ cmdFile = JsonFile(ConcStartDoc)
    /\ setFile = JsonFile(<<>>)
    /\ last = Call("init", "", NoRecord, "none", TRUE)
    /\ nops = 0
    /\ thr = NoThreads
    /\ heap = NoHandle
    /\ result = NoValue
    /\ EnvUnused

AliasCounted == nops < MaxAliasOps /\ nops' = nops + 1 /\ UNCHANGED <<thr, result, envVars>>

\* the store replaced or dropped its entry for d: the caller's objects for d
\* are no longer the store's
Unshared(h, d) ==
    [h EXCEPT !.snapRecs = @ \ {d}, !.snapLists = @ \ {d}, !.argLists = @ \ {d}]

\* get_all_commands: `return self._commands.copy()`
GetAllCommands ==
    /\ UNCHANGED storeVars
    /\ heap' = [heap EXCEPT !.snap = commands,
                            !.snapRecs = DictKeys(commands),
                            !.snapLists = DictKeys(commands)]
    /\ last' = Call("get_all_commands", "", NoRecord, "none", TRUE)

\* get_command: `return self._commands.get(description, {}).copy()`
GetCommand(d) ==
    /\ UNCHANGED storeVars
    /\ heap' = [heap EXCEPT !.snap = IF DictHas(commands, d)
                                        THEN << [k |-> d, v |-> DictGet(commands, d)] >>
                                        ELSE <<>>,
                            !.snapRecs = {},
                            !.snapLists = IF DictHas(commands, d) THEN {d} ELSE {}]
    /\ last' = Call("get_command", d, NoRecord, "none", DictHas(commands, d))

\* add_command stores `command_data.copy()`: a new record holding the caller's list
AliasAdd(d, r) ==
    /\ AddCommand(d, r, "no", "ok")
    /\ heap' = IF AddCheck(commands, d, r).ok
                  THEN [Unshared(heap, d) EXCEPT !.arg = << [k |-> d, v |-> r] >>,
                                                 !.argLists = {d}]
                  ELSE heap

\* remove_command: `del self._commands[description]`
AliasRemove(d) ==
    /\ RemoveCommand(d, "no", "ok")
    /\ heap' = IF DictHas(commands, d) THEN Unshared(heap, d) ELSE heap

AppendPhrase(r, p) == [r EXCEPT !["Phrases"] = Append(@, p)]

WithAction(r, a) == [r EXCEPT !["Action"] = a]

\* caller: snap[d]['Phrases'].append(p)
CallerAppendsToSnap(d) ==
    /\ DictHas(heap.snap, d)
    /\ Len(PhrasesOf(DictGet(heap.snap, d))) < 2
    /\ LET shared == d \in heap.snapLists
           viaArg == shared /\ d \in heap.argLists
       IN  /\ commands' = IF shared
                             THEN DictPut(commands, d, AppendPhrase(DictGet(commands, d), AliasPhrase))
                             ELSE commands
           /\ heap' = [heap EXCEPT
                         !.snap = DictPut(@, d, AppendPhrase(DictGet(@, d), AliasPhrase)),
                         !.arg = IF viaArg
                                    THEN DictPut(@, d, AppendPhrase(DictGet(@, d), AliasPhrase))
                                    ELSE @]
    /\ UNCHANGED <<settings, cache, autoSave, lastErr, lastConflicts, cmdFile, setFile>>
    /\ last' = Call("caller_append_snap", d, NoRecord, "none", TRUE)

\* caller: snap[d]['Action'] = a, on a value of get_all_commands
CallerSetsSnapAction(d) ==
    /\ DictHas(heap.snap, d)
    /\ d \in heap.snapRecs
    /\ DictGet(heap.snap, d)["Action"] # AliasAction
    /\ commands' = DictPut(commands, d, WithAction(DictGet(commands, d), AliasAction))
    /\ heap' = [heap EXCEPT !.snap = DictPut(@, d, WithAction(DictGet(@, d), AliasAction))]
    /\ UNCHANGED <<settings, cache, autoSave, lastErr, lastConflicts, cmdFile, setFile>>
    /\ last' = Call("caller_set_action", d, NoRecord, "none", TRUE)

\* caller: del snap[d], the top level of the copy is the caller's own
CallerDeletesSnapKey(d) ==
    /\ DictHas(heap.snap, d)
    /\ heap' = Unshared([heap EXCEPT !.snap = DictDel(@, d)], d)
    /\ UNCHANGED storeVars
    /\ last' = Call("caller_delete_key", d, NoRecord, "none", TRUE)

\* caller: command_data['Phrases'].append(p) after the call that passed it
CallerAppendsToArg(d) ==
    /\ DictHas(heap.arg, d)
    /\ Len(PhrasesOf(DictGet(heap.arg, d))) < 2
    /\ LET shared == d \in heap.argLists
           viaSnap == shared /\ d \in heap.snapLists
       IN  /\ commands' = IF shared
                             THEN DictPut(commands, d, AppendPhrase(DictGet(commands, d), AliasPhrase))
                             ELSE commands
           /\ heap' = [heap EXCEPT
                         !.arg = DictPut(@, d, AppendPhrase(DictGet(@, d), AliasPhrase)),
                         !.snap = IF viaSnap
                                     THEN DictPut(@, d, AppendPhrase(DictGet(@, d), AliasPhrase))
                                     ELSE @]
    /\ UNCHANGED <<settings, cache, autoSave, lastErr, lastConflicts, cmdFile, setFile>>
    /\ last' = Call("caller_append_arg", d, NoRecord, "none", TRUE)

CallerWrites == {"caller_append_snap", "caller_set_action", "caller_delete_key", "caller_append_arg"}

NextAlias ==
    \/ AliasCounted /\ GetAllCommands
    \/ \E d \in AliasDescs : AliasCounted /\ GetCommand(d)
    \/ \E d \in AliasDescs, r \in AliasRecs : AliasCounted /\ AliasAdd(d, r)
    \/ \E d \in AliasDescs : AliasCounted /\ AliasRemove(d)
    \/ \E d \in AliasDescs : AliasCounted /\ CallerAppendsToSnap(d)
    \/ \E d \in AliasDescs : AliasCounted /\ CallerSetsSnapAction(d)
    \/ \E d \in AliasDescs : AliasCounted /\ CallerDeletesSnapKey(d)
    \/ \E d \in AliasDescs : AliasCounted /\ CallerAppendsToArg(d)

SpecAlias == InitAlias /\ [][NextAlias]_vars

-----------------------------------------------------------------------------
(* The load specification: a store constructed on existing user files, then  *)
(* adds, saves, reads of a setting, reloads, and changes made to the two     *)
(* files from outside the program (deleted, overwritten with text that is    *)
(* not JSON, commands.json overwritten with a JSON list).                    *)

LoadDescs == {"B", "settings"}

LoadRec == Rec(<< <<"c">> >>, "browser", <<"x">>)

LoadSaveArgs == {"no", "yes"}

LoadPath == <<"x">>

DefaultValue == [t |-> "default", m |-> <<>>, n |-> 0]

InitLoad ==
    /\ commands = ConcStartDoc
    /\ settings = SettingsDoc
    /\ cache = <<>>
    /\ autoSave = TRUE
    /\ lastErr = NoMessage
    /\ lastConflicts = <<>>
    /\ cmdFile = JsonFile(ConcStartDoc)
    /\ setFile = JsonFile(SettingsDoc)
    /\ last = Call("init", "", NoRecord, "none", TRUE)
    /\ nops = 0
    /\ thr = NoThreads
    /\ heap = NoHeap
    /\ result = NoValue
    /\ EnvUnused

\* the user directory is changed behind the program's back
CommandsFileChanged(file) ==
    /\ cmdFile' = file
    /\ UNCHANGED <<commands, settings, cache, autoSave, lastErr, lastConflicts, setFile>>
    /\ last' = Call("file_changed", "commands.json", NoRecord, "none", TRUE)

SettingsFileChanged(file) ==
    /\ setFile' = file
    /\ UNCHANGED <<commands, settings, cache, autoSave, lastErr, lastConflicts, cmdFile>>
    /\ last' = Call("file_changed", "settings.json", NoRecord, "none", TRUE)

LoadAdd == \E d \in LoadDescs, save \in LoadSaveArgs : \E io \in IoFor(save) :
              CountedTo(MaxLoadOps) /\ AddCommand(d, LoadRec, save, io)

LoadSave == \E io \in IoOutcomes : CountedTo(MaxLoadOps) /\ SaveCommands(io)

LoadGetSetting == CountedReadTo(MaxLoadOps) /\ GetSetting(LoadPath, DefaultValue)

LoadReload == CountedTo(MaxLoadOps) /\ ReloadAll

LoadCommandsFileChanged ==
    \E f \in {MissingFile, CorruptFile, ArrayFile} :
        CountedTo(MaxLoadOps) /\ CommandsFileChanged(f)

LoadSettingsFileChanged ==
    \E f \in {MissingFile, CorruptFile} :
        CountedTo(MaxLoadOps) /\ SettingsFileChanged(f)

NextLoad ==
    \/ LoadAdd
    \/ LoadSave
    \/ LoadGetSetting
    \/ LoadReload
    \/ LoadCommandsFileChanged
    \/ LoadSettingsFileChanged

SpecLoad == InitLoad /\ [][NextLoad]_vars

-----------------------------------------------------------------------------
(* The persistence specification: the four mutating calls with every value   *)
(* of the save argument, every outcome of the write, auto-save on and off.   *)

PersistDescs == {"A", "B"}

PersistRecs == {Rec(<< <<"a">> >>, "browser", <<"x">>), Rec(<< <<"c">> >>, "keys", <<"x">>)}

PersistPaths == { <<"x">>, <<"x", ".", "y">> }

PersistValue == NumNode(5)

PersistAdd == \E d \in PersistDescs, r \in PersistRecs, save \in SaveArgs : \E io \in IoFor(save) :
                 CountedTo(MaxPersistOps) /\ AddCommand(d, r, save, io)

PersistUpdate == \E d \in PersistDescs, r \in PersistRecs, save \in SaveArgs : \E io \in IoFor(save) :
                    CountedTo(MaxPersistOps) /\ UpdateCommand(d, r, save, io)

PersistRemove == \E d \in PersistDescs, save \in SaveArgs : \E io \in IoFor(save) :
                    CountedTo(MaxPersistOps) /\ RemoveCommand(d, save, io)

PersistSetSetting == \E path \in PersistPaths, save \in SaveArgs : \E io \in IoFor(save) :
                        CountedTo(MaxPersistOps) /\ SetSetting(path, PersistValue, save, io)

PersistSetAutoSave == \E b \in BOOLEAN : CountedTo(MaxPersistOps) /\ SetAutoSave(b)

NextPersist ==
    \/ PersistAdd
    \/ PersistUpdate
    \/ PersistRemove
    \/ PersistSetSetting
    \/ PersistSetAutoSave

SpecPersist == Init /\ [][NextPersist]_vars

-----------------------------------------------------------------------------
(* The settings specification: get_setting, set_setting and reload_all on a  *)
(* tree that has a nested mapping, a string, a list and null.                *)

\* {"a": {"b": 1}, "s": "str", "l": [1], "n": null}
SettingsTree ==
    << [k |-> <<"a">>, v |-> MapNode(<< [k |-> <<"b">>, v |-> NumNode(1)] >>)],
       [k |-> <<"s">>, v |-> StrNode],
       [k |-> <<"l">>, v |-> ListNode],
       [k |-> <<"n">>, v |-> NullNode] >>

\* "a.b", "a", "a.c", "a.b.c", "s.x", "l.x", "n.x", "", "z"
GetPaths ==
    { <<"a", ".", "b">>, <<"a">>, <<"a", ".", "c">>, <<"a", ".", "b", ".", "c">>,
      <<"s", ".", "x">>, <<"l", ".", "x">>, <<"n", ".", "x">>, <<>>, <<"z">> }

\* "a", "a.b", "s.x"
SetPaths == { <<"a">>, <<"a", ".", "b">>, <<"s", ".", "x">> }

SetValues == {NumNode(5), MapNode(<<>>)}

InitSettings ==
    /\ commands = <<>>
    /\ settings = SettingsTree
    /\ cache = <<>>
    /\ autoSave = TRUE
    /\ lastErr = NoMessage
    /\ lastConflicts = <<>>
    /\ cmdFile = JsonFile(<<>>)
    /\ setFile = JsonFile(SettingsTree)
    /\ last = Call("init", "", NoRecord, "none", TRUE)
    /\ nops = 0
    /\ thr = NoThreads
    /\ heap = NoHeap
    /\ result = NoValue
    /\ EnvUnused

SettingsGet == \E path \in GetPaths : CountedReadTo(MaxSettingsOps) /\ GetSetting(path, DefaultValue)

SettingsSet == \E path \in SetPaths, value \in SetValues :
                  CountedTo(MaxSettingsOps) /\ SetSetting(path, value, "no", "ok")

SettingsReload == CountedTo(MaxSettingsOps) /\ ReloadAll

\* {"a": {"c": 2}}
ImportedTree == << [k |-> <<"a">>, v |-> MapNode(<< [k |-> <<"c">>, v |-> NumNode(2)] >>)] >>

SettingsImport == \E merge \in BOOLEAN :
                     CountedTo(MaxSettingsOps) /\ ImportConfig(JsonFile(ImportedTree), "settings", merge, "ok", "ok")

NextSettings ==
    \/ SettingsGet
    \/ SettingsSet
    \/ SettingsReload
    \/ SettingsImport

SpecSettings == InitSettings /\ [][NextSettings]_vars

-----------------------------------------------------------------------------
(* CommandManager.parse_voice_command on character sequences *)

\* characters that are not word characters for the regular expression \b
NonWordChars == {" ", "+", ".", ",", "-"}

IsWordChar(c) == c \notin NonWordChars

\* `pattern in text`
OccursAt(text, pat, i) == i + Len(pat) <= Len(text) /\ SubSeq(text, i + 1, i + Len(pat)) = pat

Contains(text, pat) == \E i \in 0..Len(text) : OccursAt(text, pat, i)

\* \b between text[i] and text[i+1]; outside the text counts as a non-word character
Boundary(text, i) ==
    (i >= 1 /\ IsWordChar(text[i])) # (i < Len(text) /\ IsWordChar(text[i + 1]))

\* re.search(r'\b' + re.escape(pattern) + r'\b', search_text)
IsWordBoundaryMatch(text, pat) ==
    \E i \in 0..Len(text) :
        OccursAt(text, pat, i) /\ Boundary(text, i) /\ Boundary(text, i + Len(pat))

\* str.replace(pattern, ""): every occurrence, left to right; the empty
\* pattern leaves the text as it is
RECURSIVE ReplaceAll(_, _)
ReplaceAll(text, pat) ==
    IF pat = <<>> \/ Len(text) < Len(pat) THEN text
    ELSE IF SubSeq(text, 1, Len(pat)) = pat
    THEN ReplaceAll(SubSeq(text, Len(pat) + 1, Len(text)), pat)
    ELSE <<Head(text)>> \o ReplaceAll(Tail(text), pat)

\* Python's order on the description strings of the model
DescOrder == <<"A", "B", "C">>

DescLess(x, y) ==
    \E i, j \in DOMAIN DescOrder : DescOrder[i] = x /\ DescOrder[j] = y /\ i < j

RECURSIVE MatchesOfPhrases(_, _, _)
MatchesOfPhrases(description, phrases, lowered) ==
    IF phrases = <<>> THEN <<>>
    ELSE (IF Contains(lowered, Lower(Head(phrases)))
          THEN << [description |-> description,
                   pattern |-> Head(phrases),
                   match_length |-> Len(Head(phrases)),
                   is_word_boundary |-> IsWordBoundaryMatch(lowered, Lower(Head(phrases)))] >>
          ELSE <<>>)
         \o MatchesOfPhrases(description, Tail(phrases), lowered)

RECURSIVE CollectMatches(_, _)
CollectMatches(cmds, lowered) ==
    IF cmds = <<>> THEN <<>>
    ELSE MatchesOfPhrases(Head(cmds).k, PhrasesOf(Head(cmds).v), lowered)
         \o CollectMatches(Tail(cmds), lowered)

\* the sort key compared by length and description only
SortKeyLessIgnoringBoundary(x, y) ==
    \/ x.match_length > y.match_length
    \/ x.match_length = y.match_length /\ DescLess(x.description, y.description)

\* (not is_word_boundary, -match_length, description), compared as tuples
SortKeyLess(x, y) ==
    \/ x.is_word_boundary /\ ~y.is_word_boundary
    \/ /\ x.is_word_boundary = y.is_word_boundary
       /\ \/ x.match_length > y.match_length
          \/ x.match_length = y.match_length /\ DescLess(x.description, y.description)

\* matches.sort(key=...)[0]: the sort is stable, so the first of the least
BestMatch(matches) ==
    LET least == {i \in DOMAIN matches : \A j \in DOMAIN matches : ~SortKeyLess(matches[j], matches[i])}
    IN  matches[CHOOSE i \in least : \A j \in least : i <= j]

NoMatch(voice_text) ==
    [found |-> FALSE, description |-> "", pattern |-> <<>>, additional |-> voice_text]

ParseVoiceCommand(cmds, voice_text) ==
    LET lowered == Strip(Lower(voice_text))
        matches == CollectMatches(cmds, lowered)
        best == BestMatch(matches)
    IN  IF matches # <<>>
        THEN [found |-> TRUE, description |-> best.description, pattern |-> best.pattern,
              additional |-> Strip(ReplaceAll(voice_text, best.pattern))]
        ELSE NoMatch(voice_text)

\* one call of parse_voice_command: it reads a copy of the command map
ParseCall(voice_text) ==
    /\ UNCHANGED storeVars
    /\ last' = Call("parse_voice_command", "", NoRecord, "none", TRUE)
    /\ result' = Returns("parse_voice_command", voice_text, ParseVoiceCommand(commands, voice_text))

-----------------------------------------------------------------------------
(* The resolver specification: a store holding one of several command maps,  *)
(* and parse_voice_command called on every short text and on some longer ones *)

Alphabet == {"a", "b", "A", " "}

ShortTexts == UNION {[1..n -> Alphabet] : n \in 0..MaxTextLen}

PleaseOpenBrowserNow == 
    <<"p", "l", "e", "a", "s", "e", " ", "o", "p", "e", "n", " ", "b", "r", "o", "w", "s", "e", "r", " ", "n", "o", "w">>

OpenBrowser == <<"o", "p", "e", "n", " ", "b", "r", "o", "w", "s", "e", "r">>

Browser == <<"b", "r", "o", "w", "s", "e", "r">>

LongTexts ==
    { PleaseOpenBrowserNow,
      <<"a", "a", "b", " ", "b">>,
      <<" ", "a", "b", " ", "a", "b", " ">>,
      <<"a", " ", "a">>,
      <<"A", "b", " ", "a", "b">>,
      <<"b", " ", "a", "a">> }

Texts == ShortTexts \cup LongTexts

Cmd(phrases) == Rec(phrases, "browser", <<"x">>)

ResolveMaps ==
    { <<>>,
      << [k |-> "A", v |-> Cmd(<<OpenBrowser>>)], [k |-> "B", v |-> Cmd(<<Browser>>)] >>,
      << [k |-> "B", v |-> Cmd(<< <<"a", "b">> >>)], [k |-> "A", v |-> Cmd(<< <<"b">> >>)] >>,
      << [k |-> "B", v |-> Cmd(<< <<"a">> >>)], [k |-> "A", v |-> Cmd(<< <<"b">> >>)] >>,
      << [k |-> "C", v |-> Cmd(<< <<"a", "b">>, <<"A", "b">> >>)],
         [k |-> "A", v |-> Cmd(<< <<"a", " ">> >>)] >>,
      << [k |-> "A", v |-> Cmd(<< <<"A">> >>)] >>,
      << [k |-> "B", v |-> Cmd(<< <<"b", " ", "a">> >>)],
         [k |-> "A", v |-> Cmd(<< <<"a", "a">> >>)],
         [k |-> "C", v |-> Cmd(<< <<"b">> >>)] >> }

InitResolve ==
    /\ commands \in ResolveMaps
    /\ settings = <<>>
    /\ cache = <<>>
    /\ autoSave = TRUE
    /\ lastErr = NoMessage
    /\ lastConflicts = <<>>
    /\ cmdFile = JsonFile(commands)
    /\ setFile = JsonFile(<<>>)
    /\ last = Call("init", "", NoRecord, "none", TRUE)
    /\ nops = 0
    /\ thr = NoThreads
    /\ heap = NoHeap
    /\ result = NoValue
    /\ EnvUnused

Resolve == \E text \in Texts : CountedReadTo(MaxResolveOps) /\ ParseCall(text)

NextResolve == Resolve

SpecResolve == InitResolve /\ [][NextResolve]_vars

-----------------------------------------------------------------------------
(* The conflict specification: _find_phrase_conflicts and                   *)
(* _validate_all_phrase_conflicts called on a store holding any small map    *)

FindCall(new_description, phrases, exclude) ==
    /\ UNCHANGED storeVars
    /\ last' = Call("find_phrase_conflicts", new_description, NoRecord, "none", TRUE)
    /\ result' = Returns("find_phrase_conflicts", [phrases |-> phrases, exclude |-> exclude],
                         FindPhraseConflicts(commands, phrases, exclude))

ValidateAllCall ==
    /\ UNCHANGED storeVars
    /\ last' = Call("validate_all_phrase_conflicts", "", NoRecord, "none", TRUE)
    /\ result' = Returns("validate_all_phrase_conflicts", <<>>, ValidateAllPhraseConflicts(commands))

ConflictDescs == {"", "A", "B"}

\* "a"; "A "; "b"; "a" and "b"; an empty entry before "a"; a blank entry; an empty entry
ConflictPhraseLists ==
    { << <<"a">> >>, << <<"A", " ">> >>, << <<"b">> >>, << <<"a">>, <<"b">> >>,
      << <<>>, <<"a">> >>, << <<" ">> >>, << <<>> >> }

ConflictRecs == {Rec(p, "browser", <<"x">>) : p \in ConflictPhraseLists}

ConflictMaps ==
    {<<>>}
    \cup { << [k |-> d, v |-> r] >> : d \in ConflictDescs, r \in ConflictRecs }
    \cup { m \in [1..2 -> [k : ConflictDescs, v : ConflictRecs]] : m[1].k # m[2].k }

\* exclude_description: None, "A" or ""
Excludes == { <<>>, <<"A">>, <<"">> }

InitConflicts ==
    /\ commands \in ConflictMaps
    /\ settings = <<>>
    /\ cache = <<>>
    /\ autoSave = TRUE
    /\ lastErr = NoMessage
    /\ lastConflicts = <<>>
    /\ cmdFile = JsonFile(commands)
    /\ setFile = JsonFile(<<>>)
    /\ last = Call("init", "", NoRecord, "none", TRUE)
    /\ nops = 0
    /\ thr = NoThreads
    /\ heap = NoHeap
    /\ result = NoValue
    /\ EnvUnused

ConflictsFind == \E phrases \in ConflictPhraseLists, exclude \in Excludes :
                    CountedReadTo(MaxConflictOps) /\ FindCall("N", phrases, exclude)

ConflictsValidateAll == CountedReadTo(MaxConflictOps) /\ ValidateAllCall

NextConflicts ==
    \/ ConflictsFind
    \/ ConflictsValidateAll

SpecConflicts == InitConflicts /\ [][NextConflicts]_vars

-----------------------------------------------------------------------------
(* ConfigManager.__init__: templates, user files and the first load *)

\* shutil.copy2(src, dst)
CopyFile(src, dst, io) ==
    IF io = "ok" THEN src
    ELSE IF io = "partial" THEN CorruptFile
    ELSE dst

\* the loop body of _ensure_user_config_files that copies the template whether
\* or not the user file exists
EnsureUserConfigFileAlwaysCopy(user, tpl, io) ==
    IF tpl.kind # "missing" THEN CopyFile(tpl, user, io)
    ELSE IF user.kind = "missing" THEN SaveJsonFile(<<>>, user, io)
    ELSE user

\* the loop body of _ensure_user_config_files, for one of the two files
EnsureUserConfigFile(user, tpl, io) ==
    IF user.kind = "missing" /\ tpl.kind # "missing" THEN CopyFile(tpl, user, io)
    ELSE IF tpl.kind = "missing" /\ user.kind = "missing" THEN SaveJsonFile(<<>>, user, io)
    ELSE user

\* __init__: the fields, _init_config_paths, _load_configurations
Construct(ioS, ioC) ==
    LET sf == EnsureUserConfigFile(setFile, template.settings, ioS)
        cf == EnsureUserConfigFile(cmdFile, template.commands, ioC)
    IN  /\ setFile' = sf
        /\ cmdFile' = cf
        /\ settings' = LoadJson(sf, <<>>)
        /\ commands' = IF cf.kind = "array" THEN <<>> ELSE DropSettingsKey(LoadJson(cf, <<>>))
        /\ cache' = <<>>
        /\ autoSave' = TRUE
        /\ lastErr' = NoMessage
        /\ lastConflicts' = <<>>
        /\ last' = Call("init", "", NoRecord, "none", TRUE)

\* {"x": 2}
TemplateSettings == << [k |-> <<"x">>, v |-> NumNode(2)] >>

TemplateCommands == << [k |-> "B", v |-> Rec(<< <<"t">> >>, "keys", <<"x">>)] >>

ConstructRec == Rec(<< <<"c">> >>, "browser", <<"x">>)

\* the disk before the program runs for the first time
InitConstruct ==
    /\ commands = <<>>
    /\ settings = <<>>
    /\ cache = <<>>
    /\ autoSave = TRUE
    /\ lastErr = NoMessage
    /\ lastConflicts = <<>>
    /\ cmdFile \in {MissingFile, CorruptFile, ArrayFile, JsonFile(ConcStartDoc)}
    /\ setFile \in {MissingFile, CorruptFile, JsonFile(SettingsDoc)}
    /\ last = Call("start", "", NoRecord, "none", TRUE)
    /\ nops = 0
    /\ thr = NoThreads
    /\ heap = NoHeap
    /\ result = NoValue
    /\ template \in [settings : {MissingFile, JsonFile(TemplateSettings)},
                      commands : {MissingFile, JsonFile(TemplateCommands)}]
    /\ backup = NoBackup
    /\ icon = IdleIcon

ConstructStore == \E ioS \in IoOutcomes, ioC \in IoOutcomes :
                     CountedTo(MaxConstructOps) /\ Construct(ioS, ioC)

ConstructAdd == /\ CountedTo(MaxConstructOps)
                /\ last.op # "start"
                /\ AddCommand("C", ConstructRec, "yes", "ok")

ConstructSetSetting == /\ CountedTo(MaxConstructOps)
                       /\ last.op # "start"
                       /\ SetSetting(<<"x">>, NumNode(5), "yes", "ok")

NextConstruct ==
    \/ ConstructStore
    \/ ConstructAdd
    \/ ConstructSetSetting

SpecConstruct == InitConstruct /\ [][NextConstruct]_vars

-----------------------------------------------------------------------------
(* ConfigManager.backup_user_config / restore_from_backup, with one backup   *)
(* directory.  The files are copied settings.json first; a copy that fails   *)
(* raises, which ends the call with False.                                   *)

BackupUserConfig(ioS, ioC) ==
    LET sFail == setFile.kind # "missing" /\ ioS # "ok"
        newS == IF setFile.kind # "missing" THEN CopyFile(setFile, backup.settings, ioS)
                ELSE backup.settings
        cTried == ~sFail /\ cmdFile.kind # "missing"
        cFail == cTried /\ ioC # "ok"
        newC == IF cTried THEN CopyFile(cmdFile, backup.commands, ioC) ELSE backup.commands
        ok == ~sFail /\ ~cFail
    IN  /\ backup' = [exists |-> TRUE, settings |-> newS, commands |-> newC,
                      taken |-> [ok |-> ok, settings |-> setFile, commands |-> cmdFile]]
        /\ UNCHANGED storeVars
        /\ last' = Call("backup", "", NoRecord, "none", ok)

RestoreFromBackup(ioS, ioC) ==
    LET sFail == backup.settings.kind # "missing" /\ ioS # "ok"
        newS == IF backup.settings.kind # "missing" THEN CopyFile(backup.settings, setFile, ioS)
                ELSE setFile
        cTried == ~sFail /\ backup.commands.kind # "missing"
        cFail == cTried /\ ioC # "ok"
        newC == IF cTried THEN CopyFile(backup.commands, cmdFile, ioC) ELSE cmdFile
    IN  IF ~backup.exists
        THEN /\ UNCHANGED storeVars
             /\ last' = Call("restore", "", NoRecord, "none", FALSE)
        ELSE IF sFail \/ cFail
        THEN /\ setFile' = newS
             /\ cmdFile' = newC
             /\ UNCHANGED <<commands, settings, cache, autoSave, lastErr, lastConflicts>>
             /\ last' = Call("restore", "", NoRecord, "none", FALSE)
        ELSE /\ setFile' = newS
             /\ cmdFile' = newC
             /\ settings' = LoadJson(newS, <<>>)
             /\ IF newC.kind = "array"
                THEN /\ UNCHANGED commands
                     /\ cache' = CacheDetached(cache)
                ELSE /\ commands' = DropSettingsKey(LoadJson(newC, <<>>))
                     /\ cache' = <<>>
             /\ UNCHANGED <<autoSave, lastErr, lastConflicts>>
             /\ last' = Call("restore", "", NoRecord, "none", TRUE)

BackupCounted ==
    /\ nops < MaxBackupOps
    /\ nops' = nops + 1
    /\ UNCHANGED <<thr, heap, result, template, icon>>

BackupDescs == {"B", "settings"}

BackupSaveArgs == {"yes", "no"}

DoBackup == \E ioS \in IoOutcomes, ioC \in IoOutcomes :
               BackupCounted /\ BackupUserConfig(ioS, ioC)

DoRestore == \E ioS \in IoOutcomes, ioC \in IoOutcomes :
                BackupCounted /\ RestoreFromBackup(ioS, ioC) /\ UNCHANGED backup

BackupAdd == \E d \in BackupDescs, save \in BackupSaveArgs :
                CountedTo(MaxBackupOps) /\ AddCommand(d, LoadRec, save, "ok")

BackupRemove == \E save \in BackupSaveArgs : CountedTo(MaxBackupOps) /\ RemoveCommand("A", save, "ok")

BackupSetSetting == \E save \in BackupSaveArgs :
                       CountedTo(MaxBackupOps) /\ SetSetting(LoadPath, NumNode(5), save, "ok")

BackupGetSetting == CountedReadTo(MaxBackupOps) /\ GetSetting(LoadPath, DefaultValue)

NextBackup ==
    \/ DoBackup
    \/ DoRestore
    \/ BackupAdd
    \/ BackupRemove
    \/ BackupSetSetting
    \/ BackupGetSetting

SpecBackup == InitLoad /\ [][NextBackup]_vars

-----------------------------------------------------------------------------
(* FloatingIcon: clicks handled by the UI thread, and the steps of the       *)
(* handle_voice_command threads the clicks start.  icon.workers holds the    *)
(* position of every thread started so far; the flags are plain attributes   *)
(* that the UI thread reads and the workers write.                           *)

IconFrame == UNCHANGED <<storeVars, thr, heap, result, template, backup>>

WorkerAt(i, pc) == i \in DOMAIN icon.workers /\ icon.workers[i] = pc

MoveWorker(i, pc) == [icon.workers EXCEPT ![i] = pc]

\* on_click: ignored while actions are disabled or an animation flag is set,
\* otherwise a thread running handle_voice_command is started
OnClick ==
    /\ nops < MaxClicks
    /\ nops' = nops + 1
    /\ IF ~icon.actions_enabled \/ icon.is_listening \/ icon.is_processing \/ icon.is_shaking
       THEN /\ UNCHANGED icon
            /\ last' = Call("on_click", "", NoRecord, "none", FALSE)
       ELSE /\ icon' = [icon EXCEPT !.workers = Append(@, "calibrating")]
            /\ last' = Call("on_click", "", NoRecord, "none", TRUE)
    /\ IconFrame

\* disable_actions / enable_actions, called when the settings window opens and closes
SetActionsEnabled(on) ==
    /\ icon.actions_enabled # on
    /\ icon' = [icon EXCEPT !.actions_enabled = on]
    /\ UNCHANGED <<last, nops>>
    /\ IconFrame

\* handle_voice_command: _ensure_calibrated returned, start_listening_animation
WorkerStartsListening(i) ==
    /\ WorkerAt(i, "calibrating")
    /\ icon' = [icon EXCEPT !.is_listening = TRUE, !.workers = MoveWorker(i, "listening")]
    /\ UNCHANGED <<last, nops>>
    /\ IconFrame

\* get_speech_as_text returned, stop_listening_animation
WorkerHeard(i, heard) ==
    /\ WorkerAt(i, "listening")
    /\ icon' = [icon EXCEPT !.is_listening = FALSE,
                            !.workers = MoveWorker(i, IF heard THEN "recognized" ELSE "unrecognized")]
    /\ UNCHANGED <<last, nops>>
    /\ IconFrame

\* `if voice_text:` start_processing_animation
WorkerStartsProcessing(i) ==
    /\ WorkerAt(i, "recognized")
    /\ icon' = [icon EXCEPT !.is_processing = TRUE, !.workers = MoveWorker(i, "processing")]
    /\ UNCHANGED <<last, nops>>
    /\ IconFrame

\* command_manager.handle_voice_command returned, stop_processing_animation
\* (with the shake as completion callback when the command failed)
WorkerProcessed(i, success) ==
    /\ WorkerAt(i, "processing")
    /\ icon' = [icon EXCEPT !.is_processing = FALSE, !.callback = ~success,
                            !.workers = MoveWorker(i, "done")]
    /\ UNCHANGED <<last, nops>>
    /\ IconFrame

\* `else:` start_shake_animation
WorkerShakes(i) ==
    /\ WorkerAt(i, "unrecognized")
    /\ icon' = [icon EXCEPT !.is_shaking = TRUE, !.workers = MoveWorker(i, "done")]
    /\ UNCHANGED <<last, nops>>
    /\ IconFrame

\* `except Exception:` stop_listening_animation, stop_processing_animation
WorkerFails(i) ==
    /\ i \in DOMAIN icon.workers
    /\ icon.workers[i] \in {"calibrating", "listening", "recognized", "processing"}
    /\ icon' = [icon EXCEPT !.is_listening = FALSE, !.is_processing = FALSE, !.callback = FALSE,
                            !.workers = MoveWorker(i, "done")]
    /\ UNCHANGED <<last, nops>>
    /\ IconFrame

\* the end of _processing_animation_loop: the completion callback, start_shake_animation
RotationComplete ==
    /\ icon.callback
    /\ ~icon.is_processing
    /\ icon' = [icon EXCEPT !.callback = FALSE, !.is_shaking = TRUE]
    /\ UNCHANGED <<last, nops>>
    /\ IconFrame

\* the end of _shake_animation_loop: stop_shake_animation
ShakeComplete ==
    /\ icon.is_shaking
    /\ icon' = [icon EXCEPT !.is_shaking = FALSE]
    /\ UNCHANGED <<last, nops>>
    /\ IconFrame

WorkerIds == 1..(MaxClicks + 1)

NextIcon ==
    \/ OnClick
    \/ \E on \in BOOLEAN : SetActionsEnabled(on)
    \/ \E i \in WorkerIds : WorkerStartsListening(i)
    \/ \E i \in WorkerIds, heard \in BOOLEAN : WorkerHeard(i, heard)
    \/ \E i \in WorkerIds : WorkerStartsProcessing(i)
    \/ \E i \in WorkerIds, success \in BOOLEAN : WorkerProcessed(i, success)
    \/ \E i \in WorkerIds : WorkerShakes(i)
    \/ \E i \in WorkerIds : WorkerFails(i)
    \/ RotationComplete
    \/ ShakeComplete

SpecIcon == Init /\ [][NextIcon]_vars

-----------------------------------------------------------------------------
(* What the claims speak of *)

PhraseSet(cmd) == {PhrasesOf(cmd)[i] : i \in 1..Len(PhrasesOf(cmd))}

\* two records own phrases that are equal after trimming and lower-casing
SharePhrase(c1, c2) == \E p \in PhraseSet(c1), q \in PhraseSet(c2) : Norm(p) = Norm(q)

CrossConflict(cmds) ==
    \E i, j \in 1..Len(cmds) : cmds[i].k # cmds[j].k /\ SharePhrase(cmds[i].v, cmds[j].v)

\* the same, counting only phrases that are not blank
ShareNonBlankPhrase(c1, c2) ==
    \E p \in PhraseSet(c1), q \in PhraseSet(c2) :
        NonBlank(p) /\ NonBlank(q) /\ Norm(p) = Norm(q)

\* some non-blank phrase of r collides with a command other than d
CollidesWithOther(cmds, d, r) ==
    \E i \in 1..Len(cmds) : cmds[i].k # d /\ ShareNonBlankPhrase(r, cmds[i].v)

CollidesWithOwn(cmds, d, r) ==
    \E i \in 1..Len(cmds) : cmds[i].k = d /\ ShareNonBlankPhrase(r, cmds[i].v)

\* the structural conditions of the data model, the action apart
WellFormed(r) ==
    /\ RequiredFields \subseteq DOMAIN r
    /\ Len(r.Phrases) >= 1
    /\ Strip(r.Command) # <<>>

FourActions == {"browser", "command", "keys", "internal"}

\* a conflict map names colliding candidates and their owners: every key is a
\* (trimmed) non-blank phrase of r, mapped to a command owning an equal phrase, and
\* every phrase of r that collides with some command is a key
ConflictMapFor(confl, cmds, r) ==
    /\ \A i \in 1..Len(confl) :
          \E p \in PhraseSet(r) :
             /\ NonBlank(p)
             /\ confl[i].k = Strip(p)
             /\ \E j \in 1..Len(cmds) :
                   /\ cmds[j].k = confl[i].v
                   /\ \E q \in PhraseSet(cmds[j].v) : NonBlank(q) /\ Norm(q) = Norm(p)
    /\ \A p \in PhraseSet(r) :
          (NonBlank(p) /\ \E j \in 1..Len(cmds) :
                             \E q \in PhraseSet(cmds[j].v) : NonBlank(q) /\ Norm(q) = Norm(p))
             => DictHas(confl, Strip(p))

-----------------------------------------------------------------------------
(* C1: starting from a conflict-free command map, every addCommand,          *)
(* updateCommand and removeCommand call (accepted or rejected, any persist   *)
(* flag) leaves a map in which no two distinct descriptions own phrases that *)
(* are equal after trimming and lower-casing, and for which validateAll      *)
(* returns the empty map.                                                    *)
C1_UniquenessPreserved ==
    [][ ( /\ last'.op \in {"add", "update", "remove"}
          /\ ~CrossConflict(commands)
          /\ ValidateAllPhraseConflicts(commands) = <<>> )
        => ( /\ ~CrossConflict(commands')
             /\ ValidateAllPhraseConflicts(commands') = <<>> ) ]_vars

(* C3: addCommand(d, r) of a structurally valid r with a phrase that equals, *)
(* after trimming and lower-casing, a phrase of another existing command     *)
(* returns false, leaves the command map and commands.json unchanged, and    *)
(* records the conflict map candidate phrase -> owning description.          *)
C3_ConflictRejected ==
    [][ ( /\ last'.op = "add"
          /\ IsValidCommandData(last'.r)
          /\ CollidesWithOther(commands, last'.d, last'.r) )
        => ( /\ ~last'.ok
             /\ commands' = commands
             /\ cmdFile' = cmdFile
             /\ lastConflicts' # <<>>
             /\ ConflictMapFor(lastConflicts', commands, last'.r) ) ]_vars

(* C5: updateCommand(d, r) on an existing description d, with a valid r      *)
(* whose phrases collide only with d's own current phrases and with no other *)
(* command, succeeds: it is not rejected for a conflict and r replaces d's   *)
(* record.                                                                   *)
C5_SelfExcludedOnUpdate ==
    [][ ( /\ last'.op = "update"
          /\ DictHas(commands, last'.d)
          /\ IsValidCommandData(last'.r)
          /\ CollidesWithOwn(commands, last'.d, last'.r)
          /\ \A i \in 1..Len(commands) :
                commands[i].k # last'.d => ~SharePhrase(last'.r, commands[i].v) )
        => ( /\ lastConflicts' = lastConflicts
             /\ commands' = DictPut(commands, last'.d, last'.r)
             /\ (last'.save = "no" => last'.ok) ) ]_vars

(* C6: every commands.json content written by saveCommands is free of        *)
(* cross-command phrase conflicts; if the in-memory map holds two distinct   *)
(* descriptions with phrases equal after normalisation, saveCommands returns *)
(* false, leaves the file as it was, and records the conflict set.           *)
C6_SavedFileConflictFree ==
    [][ /\ (cmdFile' # cmdFile /\ cmdFile'.kind = "json") => ~CrossConflict(cmdFile'.doc)
        /\ (last'.op = "save" /\ CrossConflict(commands))
              => (~last'.ok /\ cmdFile' = cmdFile /\ lastConflicts' # <<>>) ]_vars

(* C8: every addCommand and updateCommand call on a map whose commands all   *)
(* have at least one phrase, only non-blank phrases and a non-blank Command  *)
(* leaves such a map.                                                        *)
WellStored(cmds) ==
    \A i \in 1..Len(cmds) :
        /\ WellFormed(cmds[i].v)
        /\ \A p \in PhraseSet(cmds[i].v) : NonBlank(p)

C8_StoredPhrasesNonBlank ==
    [][ (last'.op \in {"add", "update"} /\ WellStored(commands)) => WellStored(commands') ]_vars

(* C10: updateCommand or removeCommand on a description absent from the map  *)
(* returns false, leaves the command map and the files unchanged, and leaves *)
(* a not-found message in the last-error message.                            *)
C10_NotFoundReported ==
    [][ (last'.op \in {"update", "remove"} /\ ~DictHas(commands, last'.d))
        => ( /\ ~last'.ok
             /\ commands' = commands
             /\ cmdFile' = cmdFile
             /\ setFile' = setFile
             /\ lastErr'.kind = "not_found" ) ]_vars

(* C4: structural validation accepts a record exactly when it has Phrases,   *)
(* Action and Command, a non-empty phrase list, a Command that is non-empty  *)
(* after trimming, and an Action among the accepted ones: addCommand of an   *)
(* otherwise valid record colliding with no stored command puts the record   *)
(* in the map (and returns true when it does not persist) for each accepted  *)
(* action, and is rejected, the map unchanged, for every other action.       *)
AddDecidedBy(actions) ==
    ( /\ last'.op = "add"
      /\ \A i \in 1..Len(commands) : ~SharePhrase(last'.r, commands[i].v) )
    => IF WellFormed(last'.r) /\ last'.r.Action \in actions
       THEN /\ commands' = DictPut(commands, last'.d, last'.r)
            /\ (~Persist(last'.save, autoSave) => last'.ok)
       ELSE /\ ~last'.ok
            /\ commands' = commands

\* as claimed: the four action values browser, command, keys, internal
C4_FourActionsAccepted == [][AddDecidedBy(FourActions)]_vars

\* as the code has it: browser, command and keys; internal is rejected
C4_ThreeActionsAccepted == [][AddDecidedBy({"browser", "command", "keys"})]_vars

C4_InternalRejected ==
    /\ last.op = "add"
    /\ WellFormed(last.r)
    /\ last.r.Action = "internal"
    /\ ~last.ok
    /\ commands = <<>>

(* C2: validation and insertion of addCommand are one atomic step: when two  *)
(* threads call addCommand (persist=false) with different descriptions whose *)
(* phrases are equal after trimming and lower-casing, at most one call       *)
(* returns true and the map never holds both commands.                       *)
Holds(cmds, d, r) == DictHas(cmds, d) /\ DictGet(cmds, d) = r

C2_AddsAtomic ==
    \A t1, t2 \in Threads :
        ( /\ t1 # t2
          /\ thr[t1].op = "add" /\ thr[t2].op = "add"
          /\ thr[t1].save = "no" /\ thr[t2].save = "no"
          /\ thr[t1].d # thr[t2].d
          /\ ShareNonBlankPhrase(thr[t1].r, thr[t2].r) )
        => ( /\ ~(thr[t1].ret = "True" /\ thr[t2].ret = "True")
             /\ ~(Holds(commands, thr[t1].d, thr[t1].r) /\ Holds(commands, thr[t2].d, thr[t2].r)) )

(* C9: in every interleaving of addCommand, updateCommand, removeCommand and *)
(* the read accessors, every call returns its normal result; none raises.    *)
C9_NoCallRaises == \A t \in Threads : thr[t].ret # "KeyError"

(* C7: getCommand and getAllCommands return copies: a later change of the    *)
(* store leaves a value returned earlier as it was, and a write by the       *)
(* caller to a returned value (or to the record it passed in) leaves the     *)
(* store as it was.                                                          *)
C7_CopiesIndependent ==
    [][ /\ (last'.op \in CallerWrites => commands' = commands)
        /\ (last'.op \in {"add", "remove"} => heap'.snap = heap.snap) ]_vars

(* C11: the stored message and conflict set describe the most recent         *)
(* operation only: a failed add/update/remove/save leaves its own message    *)
(* (and its own conflict set) stored, an operation that succeeds leaves both *)
(* empty, and getLastErrorMessage changes neither.                           *)
Mutators == {"add", "update", "remove", "save"}

OwnFailureStored(call, err, confl) ==
    /\ err # NoMessage
    /\ err.kind = "invalid" => (err.d = call.d /\ confl = <<>>)
    /\ err.kind \in {"duplicate", "duplicate_across"} => (confl # <<>> /\ confl = err.items)

C11_MessageOfLastOperation ==
    [][ /\ (last'.op \in Mutators /\ ~last'.ok) => OwnFailureStored(last', lastErr', lastConflicts')
        /\ (last'.op \in Mutators /\ last'.ok) => (lastErr' = NoMessage /\ lastConflicts' = <<>>)
        /\ (last'.op = "get_last_error_message")
              => (lastErr' = lastErr /\ lastConflicts' = lastConflicts) ]_vars

(* C12: saveCommands followed by load() gives back the saved map: when a     *)
(* successful saveCommands is followed at once by a reload, the in-memory    *)
(* map after the reload equals the map that was saved (same descriptions,    *)
(* same phrase lists in order, same Action and Command).                     *)
C12_SaveThenLoadRoundTrip ==
    [][ (last.op = "save" /\ last.ok /\ last'.op = "reload") => commands' = commands ]_vars

(* C13: a reload with commands.json missing or unparsable leaves an empty    *)
(* command map and an empty settings cache, whatever was in memory before;   *)
(* with settings.json missing or unparsable it leaves an empty settings      *)
(* tree; the reload reports success in every case.                           *)
Unreadable(file) == file.kind \in {"missing", "corrupt"}

UpdateApplied(call) ==
    \/ call.op = "add" /\ AddCheck(commands, call.d, call.r).ok
    \/ call.op = "update" /\ DictHas(commands, call.d) /\ UpdateCheck(commands, call.d, call.r).ok
    \/ call.op = "remove" /\ DictHas(commands, call.d)
    \/ call.op = "set_setting" /\ SetPath(MapNode(settings), Split(call.d), call.r).ok

SaveResult(ok, file, fileAfter, data) ==
    IF ok THEN fileAfter = JsonFile(data) ELSE fileAfter \in {file, CorruptFile}

C14_PersistFlagDecides ==
    [][ UpdateApplied(last') =>
          IF last'.save = "yes" \/ (last'.save = "none" /\ autoSave)
          THEN IF last'.op = "set_setting"
               THEN SaveResult(last'.ok, setFile, setFile', settings') /\ cmdFile' = cmdFile
               ELSE SaveResult(last'.ok, cmdFile, cmdFile', commands') /\ setFile' = setFile
          ELSE last'.ok /\ cmdFile' = cmdFile /\ setFile' = setFile ]_vars

\* auto-save is on, add was called with save=False: the command is in memory,
\* the call returned true, commands.json does not hold the command
C14_SaveFalseBeatsAutoSave ==
    /\ autoSave
    /\ last.op = "add" /\ last.save = "no" /\ last.ok
    /\ DictHas(commands, last.d)
    /\ cmdFile.kind = "json" /\ ~DictHas(cmdFile.doc, last.d)

(* C15: getSetting(path, default) returns default whenever the dot-path      *)
(* traversal of the settings tree meets a missing key or a node that is not  *)
(* a mapping, for every tree and path.                                       *)
C15_DefaultOnMissingOrMismatch ==
    [][ (last'.op = "get_setting" /\ ~Traverse(MapNode(settings), Split(last'.d)).found)
            => result'.val = DefaultValue ]_vars

(* C16: when resolve has candidates, the winner is a candidate that no       *)
(* candidate precedes in the order: word-boundary matches first, then longer *)
(* phrase first, then description ascending; resolve finds a winner exactly  *)
(* when there is a candidate; and the winner is the same for every iteration *)
(* order of the command map.                                                 *)
Searched(text) == Strip(Lower(text))

Candidates(cmds, text) ==
    UNION { { [description |-> cmds[i].k, pattern |-> p] :
                p \in { q \in PhraseSet(cmds[i].v) : Contains(Searched(text), Lower(q)) } } :
            i \in 1..Len(cmds) }

AtWordBoundary(text, c) == IsWordBoundaryMatch(Searched(text), Lower(c.pattern))

Precedes(text, c1, c2) ==
    \/ AtWordBoundary(text, c1) /\ ~AtWordBoundary(text, c2)
    \/ /\ AtWordBoundary(text, c1) = AtWordBoundary(text, c2)
       /\ \/ Len(c1.pattern) > Len(c2.pattern)
          \/ Len(c1.pattern) = Len(c2.pattern) /\ DescLess(c1.description, c2.description)

Reordered(cmds) ==
    { [i \in 1..Len(cmds) |-> cmds[f[i]]] : f \in Permutations(1..Len(cmds)) }

Winner(res) == [description |-> res.description, pattern |-> res.pattern]

C16_WinnerIsFirstInOrder ==
    [][ last'.op = "parse_voice_command" =>
          LET text == result'.arg
              res == result'.val
          IN  /\ res.found = (Candidates(commands, text) # {})
              /\ res.found =>
                   /\ Winner(res) \in Candidates(commands, text)
                   /\ \A c \in Candidates(commands, text) : ~Precedes(text, c, Winner(res))
                   /\ \A m \in Reordered(commands) :
                         Winner(ParseVoiceCommand(m, text)) = Winner(res) ]_vars

\* the winner is a word-boundary match although a longer candidate matched
\* inside a word
C16_BoundaryBeatsLonger ==
    /\ last.op = "parse_voice_command"
    /\ result.val.found
    /\ AtWordBoundary(result.arg, Winner(result.val))
    /\ \E c \in Candidates(commands, result.arg) :
          /\ ~AtWordBoundary(result.arg, c)
          /\ Len(c.pattern) > Len(result.val.pattern)

(* C17: with A owning "open browser" and B owning "browser", resolving       *)
(* "please open browser now" gives A, phrase "open browser", remainder       *)
(* "please now".                                                             *)
OpenBrowserMap ==
    << [k |-> "A", v |-> Cmd(<<OpenBrowser>>)], [k |-> "B", v |-> Cmd(<<Browser>>)] >>

PleaseNow == <<"p", "l", "e", "a", "s", "e", " ", "n", "o", "w">>

C17_PleaseOpenBrowserNow ==
    [][ ( /\ last'.op = "parse_voice_command"
          /\ commands = OpenBrowserMap
          /\ result'.arg = PleaseOpenBrowserNow )
        => result'.val = [found |-> TRUE, description |-> "A", pattern |-> OpenBrowser,
                          additional |-> PleaseNow] ]_vars

(* C18: when resolve finds a winner, the remainder is the input in its       *)
(* original casing with only the first occurrence of the winning phrase      *)
(* removed, then trimmed.                                                    *)
FirstOccurrence(text, pat) ==
    CHOOSE i \in 0..Len(text) : OccursAt(text, pat, i) /\ \A j \in 0..(i - 1) : ~OccursAt(text, pat, j)

RemoveFirst(text, pat) ==
    IF ~Contains(text, pat) THEN text
    ELSE SubSeq(text, 1, FirstOccurrence(text, pat))
         \o SubSeq(text, FirstOccurrence(text, pat) + Len(pat) + 1, Len(text))

C18_FirstOccurrenceRemoved ==
    [][ (last'.op = "parse_voice_command" /\ result'.val.found)
        => result'.val.additional = Strip(RemoveFirst(result'.arg, result'.val.pattern)) ]_vars

(* C19: for a text in which no phrase of any command occurs (lower-cased),   *)
(* resolve returns no description and the text trimmed at both ends.         *)
NoPhraseOccurs(cmds, text) ==
    \A i \in 1..Len(cmds) : \A p \in PhraseSet(cmds[i].v) : ~Contains(Lower(text), Lower(p))

C19_NoMatchGivesTrimmedText ==
    [][ (last'.op = "parse_voice_command" /\ NoPhraseOccurs(commands, result'.arg))
        => (~result'.val.found /\ result'.val.additional = Strip(result'.arg)) ]_vars

(* C21: a successful import with merge = false makes the targeted scope      *)
(* equal to the imported data; with merge = true the commands are overlaid   *)
(* by top-level description and the settings are deep-merged, so a nested    *)
(* key of the existing tree that the imported data lacks survives.           *)
RECURSIVE DeepMerge(_, _)
DeepMerge(base, user) ==
    IF user = <<>> THEN base
    ELSE LET key == Head(user).k
             value == Head(user).v
             merged == IF DictHas(base, key) /\ DictGet(base, key).t = "map" /\ value.t = "map"
                       THEN MapNode(DeepMerge(DictGet(base, key).m, value.m))
                       ELSE value
         IN  DeepMerge(DictPut(base, key, merged), Tail(user))

ImportsSettings(call) == call.d = "settings" \/ (call.d = "all" /\ "settings" \in DOMAIN call.r.doc)

ImportsCommands(call) == call.d = "commands" \/ (call.d = "all" /\ "commands" \in DOMAIN call.r.doc)

SettingsPart(call) == IF call.d = "all" THEN call.r.doc.settings ELSE call.r.doc

CommandsPart(call) == IF call.d = "all" THEN call.r.doc.commands ELSE call.r.doc

C21_ImportReplacesOrMerges ==
    [][ (last'.op = "import" /\ last'.ok) =>
          /\ ImportsSettings(last') =>
                settings' = IF last'.r.merge THEN DeepMerge(settings, SettingsPart(last'))
                            ELSE SettingsPart(last')
          /\ ImportsCommands(last') =>
                commands' = IF last'.r.merge THEN DictUpdate(commands, CommandsPart(last'))
                            ELSE CommandsPart(last') ]_vars

(* C22: constructing the store leaves an existing user settings.json or      *)
(* commands.json exactly as it was (a file is seeded only when the user file *)
(* does not exist) and leaves the template directory as it was.              *)
C22_ConstructionKeepsUserFiles ==
    [][ last'.op = "init" =>
          /\ template' = template
          /\ setFile.kind # "missing" => setFile' = setFile
          /\ cmdFile.kind # "missing" => cmdFile' = cmdFile
          /\ setFile' # setFile =>
                (setFile.kind = "missing" /\ setFile' \in {template.settings, JsonFile(<<>>), CorruptFile})
          /\ cmdFile' # cmdFile =>
                (cmdFile.kind = "missing" /\ cmdFile' \in {template.commands, JsonFile(<<>>), CorruptFile}) ]_vars

\* the store was constructed where both templates exist: commands.json was
\* seeded from its template while the user's own settings.json was kept
C22_SeededBesideKeptFile ==
    /\ last.op = "init"
    /\ template.settings.kind = "json"
    /\ setFile.kind = "json"
    /\ setFile # template.settings
    /\ cmdFile = template.commands
    /\ cmdFile.kind = "json"

(* C23: validateAll returns the empty map exactly when no two distinct       *)
(* descriptions own phrases that are equal after trimming and lower-casing;  *)
(* and every key of a returned map is a phrase of some command, collides     *)
(* with a phrase of another command, and is mapped to such another command.  *)
OwnsNorm(cmds, desc, norm) ==
    \E i \in 1..Len(cmds) : cmds[i].k = desc /\ \E q \in PhraseSet(cmds[i].v) : Norm(q) = norm

KeyOwnedByAnother(cmds, key, owner) ==
    \E i \in 1..Len(cmds) :
       /\ cmds[i].k # owner
       /\ \E p \in PhraseSet(cmds[i].v) : Strip(p) = key
       /\ OwnsNorm(cmds, owner, Lower(key))

C23_ValidateAllFindsExactlyTheConflicts ==
    [][ last'.op = "validate_all_phrase_conflicts" =>
          /\ (result'.val = <<>>) = ~CrossConflict(commands)
          /\ \A i \in 1..Len(result'.val) :
                KeyOwnedByAnother(commands, result'.val[i].k, result'.val[i].v) ]_vars

(* C24: every key of the map returned by findConflicts is one of the         *)
(* candidate phrases (trimmed, in its original casing) and is mapped to a    *)
(* command that owns a phrase equal to that candidate after normalisation,   *)
(* for every candidate list, lists with empty or blank entries included.     *)
C24_KeysAreCollidingCandidates ==
    [][ last'.op = "find_phrase_conflicts" =>
          \A i \in 1..Len(result'.val) :
             \E j \in 1..Len(result'.arg.phrases) :
                /\ result'.val[i].k = Strip(result'.arg.phrases[j])
                /\ OwnsNorm(commands, result'.val[i].v, Norm(result'.arg.phrases[j])) ]_vars

(* C25: when a candidate phrase collides with phrases of more than one       *)
(* existing command, findConflicts maps it to the first such command in the  *)
(* iteration order of the command map.                                       *)
Colliders(cmds, phrase, exclude) ==
    { i \in 1..Len(cmds) :
        /\ ~Excluded(cmds[i].k, exclude)
        /\ \E q \in PhraseSet(cmds[i].v) : NonBlank(q) /\ Norm(q) = Norm(phrase) }

FirstOf(S) == CHOOSE i \in S : \A j \in S : i <= j

C25_FirstOwnerRetained ==
    [][ last'.op = "find_phrase_conflicts" =>
          \A j \in 1..Len(result'.arg.phrases) :
             LET phrase == result'.arg.phrases[j]
                 owners == Colliders(commands, phrase, result'.arg.exclude)
             IN  (NonBlank(phrase) /\ Cardinality(owners) > 1)
                 => /\ DictHas(result'.val, Strip(phrase))
                    /\ DictGet(result'.val, Strip(phrase)) = commands[FirstOf(owners)].k ]_vars

(* C26: in every sequence of setSetting, getSetting, importConfig and load   *)
(* calls, getSetting(p, d) returns what a fresh dot-path traversal of the    *)
(* current settings tree gives for p (the value found, or d).                *)
FreshValue(tree, path, default) ==
    LET t == Traverse(MapNode(tree), Split(path))
    IN  IF t.found THEN t.val ELSE default

C26_CacheNeverStale ==
    [][ last'.op = "get_setting" => result'.val = FreshValue(settings, last'.d, DefaultValue) ]_vars

(* C27: whenever addCommand, updateCommand or removeCommand returns false,   *)
(* the in-memory command map is what it was before the call, also when the   *)
(* failure comes from the persistence step.                                  *)
C27_FailedMutationKeepsMap ==
    [][ (last'.op \in {"add", "update", "remove"} /\ ~last'.ok) => commands' = commands ]_vars

(* C28: addCommand(d, r) with a valid r for a description d that exists      *)
(* applies no self-exclusion: it is rejected with d named as an owner when a *)
(* phrase of r equals, after normalisation, a current phrase of d; when r    *)
(* collides with no command it replaces d's record by r and the number of    *)
(* commands stays the same.                                                  *)
NamesOwner(confl, d) == \E i \in 1..Len(confl) : confl[i].v = d

C28_AddOnExistingDescription ==
    [][ ( /\ last'.op = "add"
          /\ DictHas(commands, last'.d)
          /\ IsValidCommandData(last'.r) )
        => /\ SharePhrase(last'.r, DictGet(commands, last'.d))
                => /\ ~last'.ok
                   /\ commands' = commands
                   /\ NamesOwner(lastConflicts', last'.d)
           /\ (\A i \in 1..Len(commands) : ~SharePhrase(last'.r, commands[i].v))
                => /\ commands' = DictPut(commands, last'.d, last'.r)
                   /\ Len(commands') = Len(commands) ]_vars

(* C29: at most one voice-command worker (a handle_voice_command thread) is  *)
(* active at any time, for every interleaving of clicks and worker steps.    *)
ActiveWorkers == {i \in DOMAIN icon.workers : icon.workers[i] # "done"}

C29_AtMostOneWorker == Cardinality(ActiveWorkers) <= 1

(* C30: after a backup that succeeded, any calls, and a restore that         *)
(* succeeds, each config file that existed at backup time has on disk the    *)
(* content it had at backup time, the in-memory state is that content, and   *)
(* the settings cache is empty.                                              *)
C30_RestoreReturnsToBackup ==
    [][ (last'.op = "restore" /\ last'.ok /\ backup.taken.ok) =>
          /\ backup.taken.settings.kind # "missing" =>
                /\ setFile' = backup.taken.settings
                /\ settings' = LoadJson(backup.taken.settings, <<>>)
          /\ backup.taken.commands.kind # "missing" =>
                /\ cmdFile' = backup.taken.commands
                /\ commands' = LoadJson(backup.taken.commands, <<>>)
          /\ cache' = <<>> ]_vars

====
